---- MODULE Spec2Model ----
(***************************************************************************)
(* Model of the response-parsing and aggregation pipeline of the AI code   *)
(* review backend (backend/ai_service.py, backend/multi_file_service.py,   *)
(* backend/main.py, backend/models.py).                                    *)
(*                                                                         *)
(* A model reply is a text, modelled as a sequence of tokens.  Every token *)
(* stands for a fixed run of characters:                                   *)
(*   "<fence-json>"        the seven characters of an opening json fence   *)
(*   "<fence>"             the three backticks of a fence                  *)
(*   "{" "}" "[" "]" ":" "," the JSON punctuation, one character each      *)
(*   " "                   one whitespace character                        *)
(*   "x"                   one character of prose (not JSON, no brace)     *)
(*   "1".."9"              one digit                                       *)
(*   "null"                the JSON literal null                           *)
(*   a member of StrLits   the JSON string literal with that content,      *)
(*                         quotes included                                 *)
(*   "~"                   what is left of a token of several characters   *)
(*                         when its last character is cut off              *)
(* A decoded JSON value is a pair <<tag, payload>>.                         *)
(***************************************************************************)
EXTENDS Integers, Sequences, FiniteSets, TLC

FenceJson == "<fence-json>"
Fence == "<fence>"
Ws == " "
Prose == "x"
Partial == "~"
NullLit == "null"

Digits == {"1", "2", "5", "8", "9"}

DigitVal(d) ==
    CASE d = "1" -> 1
      [] d = "2" -> 2
      [] d = "5" -> 5
      [] d = "8" -> 8
      [] d = "9" -> 9

StrLits == {"feedback", "summary", "score", "overall_score", "category",
            "severity", "line", "message", "suggestion", "filename",
            "high", "low", "text", "zzz.py"}

SingleChar == {"{", "}", "[", "]", ":", ",", Ws, Prose} \cup Digits

\* ---- JSON values ----
IntV(n) == <<"int", n>>
StrV(s) == <<"str", s>>
NullV == <<"null", 0>>
ListV(q) == <<"list", q>>
ObjV(f) == <<"obj", f>>
EmptyObj == ObjV([k \in {} |-> NullV])

IsObj(x) == x[1] = "obj"
IsList(x) == x[1] = "list"
HasKey(x, k) == k \in DOMAIN x[2]

\* ---- str methods on token sequences ----
Drop(s, n) == SubSeq(s, n + 1, Len(s))

RECURSIVE LStrip(_)
LStrip(s) == IF s # <<>> /\ Head(s) = Ws THEN LStrip(Tail(s)) ELSE s

RECURSIVE RStrip(_)
RStrip(s) ==
    IF s # <<>> /\ s[Len(s)] = Ws THEN RStrip(SubSeq(s, 1, Len(s) - 1)) ELSE s

Strip(s) == RStrip(LStrip(s))

\* str.find(sub, start) for a one-token needle set; positions are 0-based
\* token positions, -1 when absent.
RECURSIVE FindFrom(_, _, _)
FindFrom(s, needles, start) ==
    IF start >= Len(s) THEN -1
    ELSE IF s[start + 1] \in needles THEN start
    ELSE FindFrom(s, needles, start + 1)

RECURSIVE RFindFrom(_, _, _)
RFindFrom(s, needles, last) ==
    IF last < 0 THEN -1
    ELSE IF s[last + 1] \in needles THEN last
    ELSE RFindFrom(s, needles, last - 1)

Find(s, needles) == FindFrom(s, needles, 0)
RFind(s, needles) == RFindFrom(s, needles, Len(s) - 1)

\* the three backticks occur at the start of both fences
FenceStart == {Fence, FenceJson}

\* s[:-1] : the text without its last character
DropLastChar(s) ==
    IF s = <<>> THEN s
    ELSE IF s[Len(s)] \in SingleChar THEN SubSeq(s, 1, Len(s) - 1)
    ELSE SubSeq(s, 1, Len(s) - 1) \o <<Partial>>

\* s[a:b] for 0-based token positions a >= 0, and b >= 0 or b = -1
Slice(s, a, b) ==
    IF b = -1 THEN Drop(DropLastChar(s), a)
    ELSE SubSeq(s, a + 1, b)

\* ---- json.loads ----
Fail == [ok |-> FALSE, val |-> NullV, next |-> 0]
Got(v, n) == [ok |-> TRUE, val |-> v, next |-> n]

RECURSIVE SkipWs(_, _)
SkipWs(s, i) == IF i <= Len(s) /\ s[i] = Ws THEN SkipWs(s, i + 1) ELSE i

Tok(s, i) == IF i <= Len(s) THEN s[i] ELSE "<eof>"

RECURSIVE ScanNumber(_, _, _)
ScanNumber(s, i, acc) ==
    IF Tok(s, i) \in Digits THEN ScanNumber(s, i + 1, 10 * acc + DigitVal(s[i]))
    ELSE Got(IntV(acc), i)

RECURSIVE ScanValue(_, _)
RECURSIVE ScanMembers(_, _, _)
RECURSIVE ScanElements(_, _, _)

\* s[i] is the first token of a member (after "{" or ","); acc is the dict so far
ScanMembers(s, i, acc) ==
    LET k == SkipWs(s, i) IN
    IF Tok(s, k) \notin StrLits THEN Fail
    ELSE LET c == SkipWs(s, k + 1) IN
         IF Tok(s, c) # ":" THEN Fail
         ELSE LET r == ScanValue(s, c + 1) IN
              IF ~r.ok THEN Fail
              ELSE LET acc2 == (s[k] :> r.val) @@ acc
                       e == SkipWs(s, r.next) IN
                   IF Tok(s, e) = "}" THEN Got(ObjV(acc2), e + 1)
                   ELSE IF Tok(s, e) = "," THEN ScanMembers(s, e + 1, acc2)
                   ELSE Fail

ScanElements(s, i, acc) ==
    LET r == ScanValue(s, i) IN
    IF ~r.ok THEN Fail
    ELSE LET acc2 == Append(acc, r.val)
             e == SkipWs(s, r.next) IN
         IF Tok(s, e) = "]" THEN Got(ListV(acc2), e + 1)
         ELSE IF Tok(s, e) = "," THEN ScanElements(s, e + 1, acc2)
         ELSE Fail

ScanValue(s, i) ==
    LET j == SkipWs(s, i)
        t == Tok(s, j) IN
    IF t = "{" THEN
        (IF Tok(s, SkipWs(s, j + 1)) = "}" THEN Got(EmptyObj, SkipWs(s, j + 1) + 1)
         ELSE ScanMembers(s, j + 1, EmptyObj[2]))
    ELSE IF t = "[" THEN
        (IF Tok(s, SkipWs(s, j + 1)) = "]" THEN Got(ListV(<<>>), SkipWs(s, j + 1) + 1)
         ELSE ScanElements(s, j + 1, <<>>))
    ELSE IF t \in StrLits THEN Got(StrV(t), j + 1)
    ELSE IF t = NullLit THEN Got(NullV, j + 1)
    ELSE IF t \in Digits THEN ScanNumber(s, j, 0)
    ELSE Fail

\* json.loads(s): [ok |-> FALSE] stands for json.JSONDecodeError
\* only whitespace may follow the value ("Extra data" otherwise)
WholeText(s, r) == IF r.ok /\ SkipWs(s, r.next) = Len(s) + 1 THEN r ELSE Fail

JsonLoads(s) == WholeText(s, ScanValue(s, 1))

\* ---- outcome of client.models.generate_content(...) ----
\* the call raises exc, or returns a response whose .text is None or a text
RaisedWith(e) == [kind |-> "raise", text |-> <<>>, exc |-> e]
NoText == [kind |-> "none", text |-> <<>>, exc |-> ""]
Answer(s) == [kind |-> "text", text |-> s, exc |-> ""]

\* ---- exceptions: the class each one derives from ----
Base(e) ==
    CASE e \in {"JSONDecodeError", "ValidationError"} -> "ValueError"
      [] e \in {"ValueError", "AttributeError", "TypeError"} -> "Exception"
      [] e = "Exception" -> "BaseException"
      [] OTHER -> ""

\* isinstance(e, c): what "except c" catches
RECURSIVE IsA(_, _)
IsA(e, c) == e = c \/ (Base(e) # "" /\ IsA(Base(e), c))

Range(s) == {s[k] : k \in DOMAIN s}

\* Results of a Python block: exc = "" when it completes normally
Ok(v) == [exc |-> "", val |-> v]
Raise(e) == [exc |-> e, val |-> NullV]

\* ---- AIService.analyze_code ----
\* the if/elif/else that selects json_content from the stripped reply
SelectJsonContent(response_text) ==
    IF FenceJson \in Range(response_text) THEN
        LET json_start == Find(response_text, {FenceJson}) + 1
            json_end == FindFrom(response_text, FenceStart, json_start)
        IN  [exc |-> "", content |-> Strip(Slice(response_text, json_start, json_end))]
    ELSE IF response_text # <<>> /\ Head(response_text) = "{" THEN
        [exc |-> "", content |-> response_text]
    ELSE
        LET start_brace == Find(response_text, {"{"})
            end_brace == RFind(response_text, {"}"}) + 1
        IN  IF start_brace # -1 /\ end_brace # 0
            THEN [exc |-> "", content |-> Slice(response_text, start_brace, end_brace)]
            ELSE [exc |-> "ValueError", content |-> <<>>]

ParseIssueRecord ==
    ObjV([feedback |-> ListV(<<ObjV([category |-> StrV("style"),
                                     severity |-> StrV("medium"),
                                     line |-> IntV(1),
                                     message |-> StrV("Unable to parse AI response, but code was analyzed"),
                                     suggestion |-> StrV("Please try again or check the code syntax")])>>),
          summary |-> StrV("Analysis completed with parsing issues"),
          overall_score |-> IntV(5)])

ErrorRecord ==
    ObjV([feedback |-> ListV(<<ObjV([category |-> StrV("logic"),
                                     severity |-> StrV("low"),
                                     line |-> IntV(1),
                                     message |-> StrV("Analysis error"),
                                     suggestion |-> StrV("Please verify your code and try again")])>>),
          summary |-> StrV("Unable to complete full analysis"),
          overall_score |-> IntV(5)])

\* variant: d[key] = default, also when the key is there
SetDefaultAssigns(d, key, default) ==
    (key :> default) @@ d

\* dict.setdefault(key, default)
SetDefault(d, key, default) ==
    IF key \in DOMAIN d THEN d ELSE (key :> default) @@ d

ItemDefaults(item) ==
    ObjV(SetDefault(SetDefault(SetDefault(SetDefault(SetDefault(item[2],
        "line", IntV(1)),
        "category", StrV("style")),
        "severity", StrV("medium")),
        "message", StrV("Issue identified")),
        "suggestion", StrV("Consider reviewing this code")))

\* result["feedback"] once a non-list is replaced by []
FeedbackList(result) ==
    IF IsList(result[2]["feedback"]) THEN result[2]["feedback"][2] ELSE <<>>

\* the structure check, the defaults and the loop over the items, for the
\* decoded value result
Normalize(result) ==
    IF ~IsObj(result) \/ ~HasKey(result, "feedback") THEN Raise("ValueError")
    ELSE IF \E k \in DOMAIN FeedbackList(result) : ~IsObj(FeedbackList(result)[k])
    THEN Raise("AttributeError")
    ELSE Ok(ObjV([SetDefault(SetDefault(result[2],
                      "summary", StrV("Code analysis completed")),
                      "overall_score", IntV(5))
                  EXCEPT !["feedback"] =
                      ListV([k \in DOMAIN FeedbackList(result) |->
                                ItemDefaults(FeedbackList(result)[k])])]))

\* json.loads and what follows it, for loaded = JsonLoads(json_content)
Decoded(loaded) ==
    IF ~loaded.ok THEN Raise("JSONDecodeError") ELSE Normalize(loaded.val)

\* the try block from json_content on, for sel = SelectJsonContent(response_text)
Selected(sel) ==
    IF sel.exc # "" THEN Raise(sel.exc) ELSE Decoded(JsonLoads(sel.content))

\* the body of the try block; exc names the exception that leaves it
AnalyzeCodeTry(outcome) ==
    IF outcome.kind = "raise" THEN Raise(outcome.exc)
    ELSE IF outcome.kind = "none" THEN Raise("AttributeError")
    ELSE Selected(SelectJsonContent(Strip(outcome.text)))

\* variant: the second except clause is missing
AnalyzeCodeExceptDecodeOnly(r) ==
    IF r.exc = "" THEN r
    ELSE IF IsA(r.exc, "JSONDecodeError") THEN Ok(ParseIssueRecord)
    ELSE r

\* the two except clauses, for the result r of the try block
AnalyzeCodeExcept(r) ==
    IF r.exc = "" THEN r
    ELSE IF IsA(r.exc, "JSONDecodeError") THEN Ok(ParseIssueRecord)
    ELSE IF IsA(r.exc, "Exception") THEN Ok(ErrorRecord)
    ELSE r

AnalyzeCode(outcome) == AnalyzeCodeExcept(AnalyzeCodeTry(outcome))

\* ---- AIService.detect_language_from_filename ----
\* A filename is a sequence of characters. str.lower() on the letters that
\* occur in the filenames of the model:
UpperCase == {"P", "Y", "T", "S", "X", "J", "A", "V", "C", "H"}
LowerChar(c) ==
    CASE c = "P" -> "p" [] c = "Y" -> "y" [] c = "T" -> "t" [] c = "S" -> "s"
      [] c = "X" -> "x" [] c = "J" -> "j" [] c = "A" -> "a" [] c = "V" -> "v"
      [] c = "C" -> "c" [] c = "H" -> "h" [] OTHER -> c
Lower(s) == [k \in DOMAIN s |-> LowerChar(s[k])]

\* s.split(".")[-1]: the part after the last "." (the whole of s without one)
RECURSIVE LastPart(_)
LastPart(s) ==
    IF s = <<>> THEN <<>>
    ELSE IF s[Len(s)] = "." THEN <<>>
    ELSE Append(LastPart(SubSeq(s, 1, Len(s) - 1)), s[Len(s)])

\* variant: the extension is taken without lower()
ExtensionAsWritten(filename) ==
    IF "." \in Range(filename) THEN LastPart(filename) ELSE <<>>

Extension(filename) ==
    IF "." \in Range(filename) THEN LastPart(Lower(filename)) ELSE <<>>

ExtensionMap ==
    (<<"p", "y">> :> "python")
        @@ (<<"t", "s">> :> "typescript")
        @@ (<<"t", "s", "x">> :> "typescript")
        @@ (<<"j", "s">> :> "javascript")
        @@ (<<"j", "s", "x">> :> "javascript")
        @@ (<<"j", "a", "v", "a">> :> "java")
        @@ (<<"c", "p", "p">> :> "cpp")
        @@ (<<"c", "c">> :> "cpp")
        @@ (<<"c", "x", "x">> :> "cpp")
        @@ (<<"c">> :> "cpp")
        @@ (<<"h">> :> "cpp")
        @@ (<<"h", "p", "p">> :> "cpp")
        @@ (<<"c", "s">> :> "csharp")

DetectLanguageFromFilename(filename) ==
    IF Extension(filename) \in DOMAIN ExtensionMap
    THEN ExtensionMap[Extension(filename)]
    ELSE "python"

\* main.py, upload_and_analyze: uploaded_file.filename or "unknown.txt", for
\* an upload whose filename is None or empty (<<>>), and its language
UnknownTxt == <<"u", "n", "k", "n", "o", "w", "n", ".", "t", "x", "t">>
UploadFilename(uploaded) == IF uploaded = <<>> THEN UnknownTxt ELSE uploaded
UploadFileInfo(uploaded) ==
    [filename |-> UploadFilename(uploaded),
     language |-> DetectLanguageFromFilename(UploadFilename(uploaded))]

\* ---- models.py: pydantic validation ----
\* A str field takes a JSON string, an int field a JSON integer; null, lists,
\* objects and non-numeric strings in an int field are rejected.
ValidStr(x) == x[1] = "str"
ValidInt(x) == x[1] = "int"

NoFilename == "<None>"
StrFields == {"category", "severity", "message", "suggestion"}

\* FeedbackItem(**kw): kw maps keyword names to values; unknown names are ignored
FeedbackItem(kw) ==
    IF /\ StrFields \subseteq DOMAIN kw
       /\ \A k \in StrFields : ValidStr(kw[k])
       /\ "line" \in DOMAIN kw
       /\ ValidInt(kw["line"])
       /\ "filename" \in DOMAIN kw =>
              (ValidStr(kw["filename"]) \/ kw["filename"][1] = "null")
    THEN Ok([category |-> kw["category"][2],
             severity |-> kw["severity"][2],
             line |-> kw["line"][2],
             message |-> kw["message"][2],
             suggestion |-> kw["suggestion"][2],
             filename |-> IF "filename" \in DOMAIN kw /\ ValidStr(kw["filename"])
                          THEN kw["filename"][2] ELSE NoFilename])
    ELSE Raise("ValidationError")

\* [FeedbackItem(**item) for item in items]: items is a sequence of values
FeedbackItems(items) ==
    IF \E k \in DOMAIN items : ~IsObj(items[k]) THEN Raise("TypeError")
    ELSE IF \E k \in DOMAIN items : FeedbackItem(items[k][2]).exc # ""
         THEN Raise("ValidationError")
    ELSE Ok([k \in DOMAIN items |-> FeedbackItem(items[k][2]).val])

\* A str is a JSON string or an f-string of a fixed text and one argument
FStr(text, arg) == <<"str", text, arg>>
StrParts(x) == IF Len(x) = 3 THEN <<x[2], x[3]>> ELSE <<x[2]>>

CodeReviewResponse(feedback, summary, overall_score) ==
    IF ValidStr(summary) /\ ValidInt(overall_score)
    THEN Ok([feedback |-> feedback, summary |-> summary[2],
             overall_score |-> overall_score[2]])
    ELSE Raise("ValidationError")

FileFeedback(filename, feedback, summary, score) ==
    IF ValidStr(summary) /\ ValidInt(score)
    THEN Ok([filename |-> filename, feedback |-> feedback,
             summary |-> StrParts(summary), score |-> score[2]])
    ELSE Raise("ValidationError")

\* ---- main.py: the try block of review_code ----
\* CodeReviewResponse(feedback=feedback_items, ...), for the result items of
\* the list comprehension
ReviewCodeResponse(items, analysis) ==
    IF items.exc # "" THEN Raise(items.exc)
    ELSE CodeReviewResponse(items.val, analysis[2]["summary"],
                            analysis[2]["overall_score"])

\* the try block once analyze_code has ended with r
ReviewCodeItems(r) ==
    IF r.exc # "" THEN r
    ELSE ReviewCodeResponse(FeedbackItems(r.val[2]["feedback"][2]), r.val)

ReviewCodeTry(outcome) == ReviewCodeItems(AnalyzeCode(outcome))

\* ---- MultiFileAnalysisService.parse_ai_response ----
SelectJsonContentMulti(response_text) ==
    IF FenceJson \in Range(response_text) THEN
        LET json_start == Find(response_text, {FenceJson}) + 1
            json_end == FindFrom(response_text, FenceStart, json_start)
        IN  [exc |-> "", content |-> Strip(Slice(response_text, json_start, json_end))]
    ELSE IF response_text # <<>> /\ Head(response_text) \in {"{", "["} THEN
        [exc |-> "", content |-> response_text]
    ELSE
        LET start_brace == Find(response_text, {"{"})
            end_brace == RFind(response_text, {"}"}) + 1
        IN  IF start_brace # -1 /\ end_brace # 0
            THEN [exc |-> "", content |-> Slice(response_text, start_brace, end_brace)]
            ELSE [exc |-> "ValueError", content |-> <<>>]

DefaultRecord ==
    ObjV([feedback |-> ListV(<<ObjV([category |-> StrV("style"),
                                     severity |-> StrV("medium"),
                                     line |-> IntV(1),
                                     message |-> StrV("Unable to parse analysis response"),
                                     suggestion |-> StrV("Please try again or check file syntax")])>>),
          summary |-> StrV("Analysis completed with parsing issues"),
          score |-> IntV(5)])

\* return json.loads(json_content), for loaded = JsonLoads(json_content)
ReturnLoaded(loaded) ==
    IF loaded.ok THEN Ok(loaded.val) ELSE Raise("JSONDecodeError")

ParseSelected(sel) ==
    IF sel.exc # "" THEN Raise(sel.exc) ELSE ReturnLoaded(JsonLoads(sel.content))

\* the try block of parse_ai_response; response_text is NoText or Answer(s)
ParseAiResponseTry(response_text) ==
    IF response_text.kind = "none" THEN Raise("AttributeError")
    ELSE ParseSelected(SelectJsonContentMulti(Strip(response_text.text)))

\* variant: "except json.JSONDecodeError" alone
ParseAiResponseExceptDecodeOnly(r) ==
    IF r.exc = "" THEN r
    ELSE IF IsA(r.exc, "JSONDecodeError") THEN Ok(DefaultRecord)
    ELSE r

\* the except clause, for the result r of the try block
ParseAiResponseExcept(r) ==
    IF r.exc = "" THEN r
    ELSE IF IsA(r.exc, "JSONDecodeError") \/ IsA(r.exc, "ValueError")
    THEN Ok(DefaultRecord)
    ELSE r

ParseAiResponse(response_text) ==
    ParseAiResponseExcept(ParseAiResponseTry(response_text))

\* ---- MultiFileAnalysisService.analyze_single_file ----
\* "for item in x": the items of a list; an empty dict has none; iterating a
\* number or null raises, and so does unpacking the characters of a string or
\* the keys of a dict as keyword arguments
Iterate(x) ==
    IF IsList(x) THEN Ok(x[2])
    ELSE IF IsObj(x) /\ DOMAIN x[2] = {} THEN Ok(<<>>)
    ELSE Raise("TypeError")

\* variant: {"filename": filename, **item}, the model's filename wins
WithFilenameFirst(item, filename) ==
    IF IsObj(item) THEN ObjV(item[2] @@ ("filename" :> StrV(filename))) ELSE item

\* {**item, "filename": filename}
WithFilename(item, filename) ==
    IF IsObj(item) THEN ObjV(("filename" :> StrV(filename)) @@ item[2]) ELSE item

\* variant: the fallback record does not name the file
SingleFileFallbackUnnamed(filename) ==
    [filename |-> "unknown",
     feedback |-> <<[category |-> "logic", severity |-> "low", line |-> 1,
                     message |-> "Analysis error",
                     suggestion |-> "Please verify file content and try again",
                     filename |-> "unknown"]>>,
     summary |-> <<"Unable to analyze ", filename>>,
     score |-> 5]

SingleFileFallback(filename) ==
    [filename |-> filename,
     feedback |-> <<[category |-> "logic", severity |-> "low", line |-> 1,
                     message |-> "Analysis error",
                     suggestion |-> "Please verify file content and try again",
                     filename |-> filename]>>,
     summary |-> <<"Unable to analyze ", filename>>,
     score |-> 5]

\* dict.get(key, default)
Get(d, key, default) == IF key \in DOMAIN d THEN d[key] ELSE default

\* return FileFeedback(...), for the result feedback_items of the list comprehension
SingleFileReturn(filename, feedback_items, result) ==
    IF feedback_items.exc # "" THEN Raise(feedback_items.exc)
    ELSE FileFeedback(filename, feedback_items.val,
                      Get(result[2], "summary", FStr("Analysis for ", filename)),
                      Get(result[2], "score", IntV(5)))

\* the list comprehension, for it = the iteration of result.get("feedback", [])
SingleFileItems(filename, it, result) ==
    IF it.exc # "" THEN Raise(it.exc)
    ELSE SingleFileReturn(filename,
             FeedbackItems([k \in DOMAIN it.val |-> WithFilename(it.val[k], filename)]),
             result)

\* the try block once parse_ai_response has ended with parsed
SingleFileResult(filename, parsed) ==
    IF parsed.exc # "" THEN parsed
    ELSE IF ~IsObj(parsed.val) THEN Raise("AttributeError")
    ELSE SingleFileItems(filename,
             Iterate(Get(parsed.val[2], "feedback", ListV(<<>>))), parsed.val)

AnalyzeSingleFileTry(file_info, outcome) ==
    IF outcome.kind = "raise" THEN Raise(outcome.exc)
    ELSE SingleFileResult(file_info.filename, ParseAiResponse(outcome))

\* the except clause, for the result r of the try block
\* variant: the handler logs and re-raises
SingleFileExceptReraises(filename, r) == r

SingleFileExcept(filename, r) ==
    IF r.exc = "" THEN r
    ELSE IF IsA(r.exc, "Exception") THEN Ok(SingleFileFallback(filename))
    ELSE r

AnalyzeSingleFile(file_info, outcome) ==
    SingleFileExcept(file_info.filename, AnalyzeSingleFileTry(file_info, outcome))

\* ---- MultiFileAnalysisService.analyze_cross_file_dependencies ----
CrossFileError ==
    <<[category |-> "logic", severity |-> "low", line |-> 1,
       message |-> "Cross-file analysis error",
       suggestion |-> "Manual review recommended for cross-file dependencies",
       filename |-> "multiple_files"]>>

\* the part after the len(files) < 2 return: the try block and its handler
\* [FeedbackItem(**item) for item in result["feedback"]]
CrossFileItems(it) ==
    IF it.exc # "" THEN Raise(it.exc) ELSE FeedbackItems(it.val)

\* the if/elif/else on the type of result, once parse_ai_response has ended
\* with parsed
CrossFileResult(parsed) ==
    IF parsed.exc # "" THEN parsed
    ELSE IF IsList(parsed.val) THEN FeedbackItems(parsed.val[2])
    ELSE IF IsObj(parsed.val) /\ HasKey(parsed.val, "feedback")
    THEN CrossFileItems(Iterate(parsed.val[2]["feedback"]))
    ELSE Ok(<<>>)

CrossFileTry(outcome) ==
    IF outcome.kind = "raise" THEN Raise(outcome.exc)
    ELSE CrossFileResult(ParseAiResponse(outcome))

\* the except clause, for the result r of the try block
CrossFileExcept(r) ==
    IF r.exc = "" THEN r
    ELSE IF IsA(r.exc, "Exception") THEN Ok(CrossFileError)
    ELSE r

CrossFileIssues(outcome) == CrossFileExcept(CrossFileTry(outcome))

\* analyze_cross_file_dependencies(files), outcome being that of its
\* generate_content call when it makes one
AnalyzeCrossFileDependencies(files, outcome) ==
    IF Len(files) < 2 THEN Ok(<<>>) ELSE CrossFileIssues(outcome)

\* ---- aggregation ----
\* sum(...) over a sequence of integers
RECURSIVE Sum(_)
Sum(q) == IF q = <<>> THEN 0 ELSE Head(q) + Sum(Tail(q))

CountHigh(items) == Cardinality({k \in DOMAIN items : items[k].severity = "high"})

NumFeedback(fas) == [k \in DOMAIN fas |-> Len(fas[k].feedback)]
NumHigh(fas) == [k \in DOMAIN fas |-> CountHigh(fas[k].feedback)]
Scores(fas) == [k \in DOMAIN fas |-> fas[k].score]

\* variant: the high-severity count leaves out the cross-file issues
GenerateOverallSummaryPerFile(file_analyses, cross_file_issues) ==
    LET total_issues == Sum(NumFeedback(file_analyses)) + Len(cross_file_issues)
        high_severity == Sum(NumHigh(file_analyses))
    IN  IF total_issues = 0 THEN
            [text |-> "Excellent codebase! No significant issues found across all files.",
             total |-> 0, high |-> 0]
        ELSE IF high_severity > 0 THEN
            [text |-> "Codebase needs attention", total |-> total_issues,
             high |-> high_severity]
        ELSE
            [text |-> "Good codebase with room for improvement",
             total |-> total_issues, high |-> 0]

GenerateOverallSummary(file_analyses, cross_file_issues) ==
    LET total_issues == Sum(NumFeedback(file_analyses)) + Len(cross_file_issues)
        high_severity == Sum(NumHigh(file_analyses)) + CountHigh(cross_file_issues)
    IN  IF total_issues = 0 THEN
            [text |-> "Excellent codebase! No significant issues found across all files.",
             total |-> 0, high |-> 0]
        ELSE IF high_severity > 0 THEN
            [text |-> "Codebase needs attention", total |-> total_issues,
             high |-> high_severity]
        ELSE
            [text |-> "Good codebase with room for improvement",
             total |-> total_issues, high |-> 0]

\* variant: int(x / n + 0.5), half rounded up
RoundHalfUp(x, n) == (2 * x + n) \div (2 * n)

\* int(round(x / n)) for integers x and n > 0: round half to even
RoundDiv(x, n) ==
    LET q == x \div n
        r == x % n
    IN  IF 2 * r < n THEN q
        ELSE IF 2 * r > n THEN q + 1
        ELSE IF q % 2 = 0 THEN q ELSE q + 1

CalculateOverallScore(file_analyses) ==
    IF file_analyses = <<>> THEN 5
    ELSE RoundDiv(Sum(Scores(file_analyses)), Len(file_analyses))

\* ---- inputs: submissions and model replies ----
MaxFiles == 2

FileNames == {"a.py", "b.js"}
\* content or code: empty, whitespace only, or with a character of code
Contents == {<<>>, <<Ws>>, <<Prose>>}
FileInfos == [filename : FileNames, content : Contents]
ProjectNames == {"", "proj"}

\* filenames as character sequences, for language detection: a stem, and an
\* extension in lower, upper or mixed case
Stems == {<<>>, <<"a">>, <<"a", ".", "p", "y">>, <<"J", "s", ".", "c", ".">>}
MappedExtensions == DOMAIN ExtensionMap
Upper(s) ==
    [k \in DOMAIN s |->
        IF \E u \in UpperCase : LowerChar(u) = s[k]
        THEN CHOOSE u \in UpperCase : LowerChar(u) = s[k]
        ELSE s[k]]
Capitalized(s) == IF s = <<>> THEN s ELSE <<Upper(s)[1]>> \o Tail(s)
OtherExtensions ==
    {<<>>, <<"t", "x", "t">>, <<"p", "y", "c">>, <<"p">>, <<"g", "o">>,
     <<"j", "a", "v">>, <<"c", "s", "s">>, <<"p", "y", " ">>}
Extensions ==
    MappedExtensions \cup {Upper(e) : e \in MappedExtensions}
        \cup {Capitalized(e) : e \in MappedExtensions} \cup OtherExtensions
DotlessNames ==
    {<<>>, <<"p", "y">>, <<"M", "a", "k", "e">>, <<"u", "n", "k", "n", "o", "w", "n">>}
Filenames ==
    {stem \o <<".">> \o e : stem \in Stems, e \in Extensions} \cup DotlessNames

SeqsUpTo(S, n) == UNION {[1..k -> S] : k \in 0..n}

\* json.dumps of a value, without whitespace
DigitOf(n) == CHOOSE d \in Digits : DigitVal(d) = n
NumberText(n) == IF n < 10 THEN <<DigitOf(n)>> ELSE <<DigitOf(n \div 10), DigitOf(n % 10)>>

RECURSIVE Dumps(_)
RECURSIVE DumpsMembers(_, _)
RECURSIVE DumpsElements(_)
DumpsMembers(f, keys) ==
    LET k == CHOOSE x \in keys : TRUE
        rest == keys \ {k}
    IN  <<k, ":">> \o Dumps(f[k]) \o
        (IF rest = {} THEN <<>> ELSE <<",">> \o DumpsMembers(f, rest))
DumpsElements(q) ==
    Dumps(Head(q)) \o (IF Len(q) = 1 THEN <<>> ELSE <<",">> \o DumpsElements(Tail(q)))
Dumps(x) ==
    CASE x[1] = "int" -> NumberText(x[2])
      [] x[1] = "str" -> <<x[2]>>
      [] x[1] = "null" -> <<NullLit>>
      [] x[1] = "list" -> <<"[">> \o (IF x[2] = <<>> THEN <<>> ELSE DumpsElements(x[2])) \o <<"]">>
      [] x[1] = "obj" -> <<"{">> \o (IF DOMAIN x[2] = {} THEN <<>>
                                     ELSE DumpsMembers(x[2], DOMAIN x[2])) \o <<"}">>

\* what a model may put in a feedback list
GoodItem(sev) ==
    ObjV([category |-> StrV("text"), severity |-> StrV(sev), line |-> IntV(9),
          message |-> StrV("text"), suggestion |-> StrV("text")])
OtherFileItem == ObjV(("filename" :> StrV("zzz.py")) @@ GoodItem("high")[2])
BareItem == ObjV([line |-> IntV(2)])
BadLineItem == ObjV([GoodItem("low")[2] EXCEPT !["line"] = StrV("text")])

\* documents that decode to an object a per-file record can be built from
GoodDocs ==
    << ObjV([feedback |-> ListV(<<>>), summary |-> StrV("text"), score |-> IntV(8),
            overall_score |-> IntV(8)]),
      ObjV([feedback |-> ListV(<<OtherFileItem>>), score |-> IntV(1)]),
      ObjV([feedback |-> ListV(<<GoodItem("low"), GoodItem("high")>>),
            summary |-> StrV("text"), score |-> IntV(2)]),
      ObjV([feedback |-> EmptyObj, score |-> IntV(12), overall_score |-> IntV(12)]),
      EmptyObj >>

\* documents that decode, to something else than the prompts ask for
OddDocs ==
    << ListV(<<GoodItem("high")>>),
      ListV(<<GoodItem("low"), OtherFileItem>>),
      ListV(<<>>),
      ListV(<<IntV(5)>>),
      IntV(5),
      ObjV([feedback |-> ListV(<<BareItem>>)]),
      ObjV([feedback |-> ListV(<<BadLineItem>>)]),
      ObjV([feedback |-> ListV(<<IntV(5)>>)]),
      ObjV([feedback |-> IntV(5)]),
      ObjV([feedback |-> StrV("text"), summary |-> StrV("text")]),
      ObjV([feedback |-> ListV(<<>>), summary |-> NullV]),
      ObjV([feedback |-> ListV(<<>>), score |-> StrV("high"),
            overall_score |-> StrV("high")]),
      ObjV([summary |-> StrV("text")]) >>

\* how a reply carries a document d
Wrappings(d) ==
    { d,
      <<Ws>> \o d \o <<Ws>>,
      <<FenceJson, Ws>> \o d \o <<Ws, Fence>>,
      <<Prose, Ws, FenceJson>> \o d \o <<Fence, Prose>>,
      <<FenceJson>> \o d,
      <<Prose, Ws>> \o d \o <<Ws, Prose>> }

WrappedDocs ==
    << ObjV([feedback |-> ListV(<<OtherFileItem>>), score |-> IntV(1)]),
      ListV(<<GoodItem("high")>>),
      IntV(5) >>

\* replies that are not a document in one of the wrappings
BrokenReplies ==
    { <<>>,
      <<Prose, Prose>>,
      <<"{", "feedback", ":", "[">>,
      <<Prose, "}", Prose, "{">>,
      <<"{", "}", Prose>>,
      <<FenceJson, "{", "}", "text">>,
      <<FenceJson, "{", "}", Ws>>,
      <<FenceJson, "5", "5">> }

Replies ==
    {Dumps(GoodDocs[k]) : k \in DOMAIN GoodDocs}
        \cup {Dumps(OddDocs[k]) : k \in DOMAIN OddDocs}
        \cup UNION {Wrappings(Dumps(WrappedDocs[k])) : k \in DOMAIN WrappedDocs}
        \cup BrokenReplies

\* what a generate_content call may raise
ModelErrors == {"Exception", "JSONDecodeError"}

ModelOutcomes ==
    {RaisedWith(e) : e \in ModelErrors} \cup {NoText} \cup {Answer(r) : r \in Replies}

\* ---- the state of the backend and of the call it is serving ----
VARIABLES
    services,           \* main.py: ai_service and multi_file_service are set (not None)
    pc,                 \* where the call stands
    entry,              \* the operation that was called
    submission,         \* its arguments, and for a call of one service method
                        \* the outcome of its generate_content call
    idx,                \* position of the for loop of analyze_codebase (1-based)
    file_analyses,      \* analyze_codebase: file_analyses
    all_feedback,       \* analyze_codebase: all_feedback
    cross_file_issues,  \* analyze_codebase: cross_file_issues
    requests,           \* the generate_content calls of this call, in order
    response            \* how the operation ended

vars == <<services, pc, entry, submission, idx, file_analyses, all_feedback,
          cross_file_issues, requests, response>>

NoOutcome == [kind |-> "", text |-> <<>>, exc |-> ""]
NoSubmission ==
    [code |-> <<>>, files |-> <<>>, project_name |-> "", outcome |-> NoOutcome,
     filename |-> <<>>]
NoResponse == [status |-> "", detail |-> "", body |-> <<>>]

\* an HTTP answer; a value returned to a Python caller; an exception leaving
\* the operation
Http(status, detail) == [status |-> status, detail |-> detail, body |-> <<>>]
Http200(body) == [status |-> "200", detail |-> "", body |-> <<body>>]
Returned(body) == [status |-> "returned", detail |-> "", body |-> <<body>>]
Escaped(e) == [status |-> "raised", detail |-> e, body |-> <<>>]

\* how a method called from Python ends, for its result r
Ends(r) == IF r.exc = "" THEN Returned(r.val) ELSE Escaped(r.exc)

Request(kind, index) == [kind |-> kind, index |-> index, completed |-> FALSE]
Issue(kind, index) == Append(requests, Request(kind, index))
Complete == [requests EXCEPT ![Len(requests)].completed = TRUE]

\* variant: "not content", without the strip()
IsEmpty(content) == content = <<>>

IsBlank(content) == Strip(content) = <<>>

Init ==
    /\ services \in BOOLEAN
    /\ pc = "idle"
    /\ entry = ""
    /\ submission = NoSubmission
    /\ idx = 1
    /\ file_analyses = <<>>
    /\ all_feedback = <<>>
    /\ cross_file_issues = <<>>
    /\ requests = <<>>
    /\ response = NoResponse

\* variant: file_analyses and all_feedback are attributes of the service,
\* created once and never emptied
FreshKeepsLists ==
    /\ idx' = 1
    /\ UNCHANGED <<file_analyses, all_feedback>>
    /\ cross_file_issues' = <<>>

\* the locals of analyze_codebase before its first statement
Fresh ==
    /\ idx' = 1
    /\ file_analyses' = <<>>
    /\ all_feedback' = <<>>
    /\ cross_file_issues' = <<>>

Locals == <<idx, file_analyses, all_feedback, cross_file_issues>>

\* POST /review-code, up to the generate_content call of analyze_code
ReviewCode(code) ==
    /\ pc = "idle"
    /\ entry' = "review_code"
    /\ submission' = [NoSubmission EXCEPT !.code = code]
    /\ IF ~services THEN
           /\ response' = Http("500", "AI service not available. Please check API key configuration.")
           /\ requests' = <<>>
           /\ pc' = "done"
       ELSE IF IsBlank(code) THEN
           /\ response' = Http("400", "Code cannot be empty")
           /\ requests' = <<>>
           /\ pc' = "done"
       ELSE
           /\ response' = NoResponse
           /\ requests' = <<Request("code", 1)>>
           /\ pc' = "code_wait"
    /\ UNCHANGED <<services, Locals>>

\* except Exception of review_code, for the result r of its try block
ReviewCodeExcept(r) ==
    IF r.exc = "" THEN Http200(r.val)
    ELSE IF IsA(r.exc, "Exception") THEN Http("500", "Error analyzing code")
    ELSE Escaped(r.exc)

\* the generate_content call ends; the rest of analyze_code and of review_code
ReviewCodeComplete(outcome) ==
    /\ pc = "code_wait"
    /\ requests' = Complete
    /\ submission' = [submission EXCEPT !.outcome = outcome]
    /\ response' = ReviewCodeExcept(ReviewCodeTry(outcome))
    /\ pc' = "done"
    /\ UNCHANGED <<services, entry, Locals>>

\* AIService.analyze_code called from Python, generate_content call included
CallAnalyzeCode(code, outcome) ==
    /\ pc = "idle"
    /\ services
    /\ entry' = "analyze_code"
    /\ submission' = [NoSubmission EXCEPT !.code = code, !.outcome = outcome]
    /\ requests' = <<[Request("code", 1) EXCEPT !.completed = TRUE]>>
    /\ response' = Ends(AnalyzeCode(outcome))
    /\ pc' = "done"
    /\ UNCHANGED <<services, Locals>>

\* MultiFileAnalysisService.parse_ai_response called from Python
CallParseAiResponse(response_text) ==
    /\ pc = "idle"
    /\ services
    /\ entry' = "parse_ai_response"
    /\ submission' = [NoSubmission EXCEPT !.outcome = response_text]
    /\ requests' = <<>>
    /\ response' = Ends(ParseAiResponse(response_text))
    /\ pc' = "done"
    /\ UNCHANGED <<services, Locals>>

\* MultiFileAnalysisService.analyze_single_file called from Python,
\* generate_content call included
CallAnalyzeSingleFile(file_info, outcome) ==
    /\ pc = "idle"
    /\ services
    /\ entry' = "analyze_single_file"
    /\ submission' = [NoSubmission EXCEPT !.files = <<file_info>>,
                                          !.outcome = outcome]
    /\ requests' = <<[Request("file", 1) EXCEPT !.completed = TRUE]>>
    /\ response' = Ends(AnalyzeSingleFile(file_info, outcome))
    /\ pc' = "done"
    /\ UNCHANGED <<services, Locals>>

\* AIService.detect_language_from_filename called from Python
CallDetectLanguage(filename) ==
    /\ pc = "idle"
    /\ entry' = "detect_language"
    /\ submission' = [NoSubmission EXCEPT !.filename = filename]
    /\ requests' = <<>>
    /\ response' = Returned(DetectLanguageFromFilename(filename))
    /\ pc' = "done"
    /\ UNCHANGED <<services, Locals>>

\* upload_and_analyze: the FileInfo made for one uploaded file (its filename
\* and language; the files then go to analyze_codebase)
UploadedFile(uploaded) ==
    /\ pc = "idle"
    /\ services
    /\ entry' = "upload_file"
    /\ submission' = [NoSubmission EXCEPT !.filename = uploaded]
    /\ requests' = <<>>
    /\ response' = Returned(UploadFileInfo(uploaded))
    /\ pc' = "done"
    /\ UNCHANGED <<services, Locals>>

\* MultiFileAnalysisService.analyze_cross_file_dependencies called from
\* Python, generate_content call included
CallAnalyzeCrossFile(files, outcome) ==
    /\ pc = "idle"
    /\ services
    /\ entry' = "analyze_cross_file_dependencies"
    /\ submission' = [NoSubmission EXCEPT
                         !.files = files,
                         !.outcome = IF Len(files) < 2 THEN NoOutcome ELSE outcome]
    /\ requests' = IF Len(files) < 2 THEN <<>>
                   ELSE <<[Request("cross", 0) EXCEPT !.completed = TRUE]>>
    /\ response' = Ends(AnalyzeCrossFileDependencies(files, outcome))
    /\ pc' = "done"
    /\ UNCHANGED <<services, Locals>>

\* POST /review-codebase, up to the call of analyze_codebase
ReviewCodebase(files, project_name) ==
    /\ pc = "idle"
    /\ entry' = "review_codebase"
    /\ requests' = <<>>
    /\ IF ~services THEN
           /\ response' = Http("500", "Multi-file analysis service not available. Please check API key configuration.")
           /\ submission' = [NoSubmission EXCEPT !.files = files,
                                                 !.project_name = project_name]
           /\ pc' = "done"
       ELSE IF files = <<>> THEN
           /\ response' = Http("400", "At least one file must be provided")
           /\ submission' = [NoSubmission EXCEPT !.files = files,
                                                 !.project_name = project_name]
           /\ pc' = "done"
       ELSE IF \E k \in DOMAIN files : IsBlank(files[k].content) THEN
           /\ response' = Http("400", "File cannot be empty")
           /\ submission' = [NoSubmission EXCEPT !.files = files,
                                                 !.project_name = project_name]
           /\ pc' = "done"
       ELSE
           /\ response' = NoResponse
           /\ submission' = [NoSubmission EXCEPT
                                !.files = files,
                                !.project_name = IF project_name = ""
                                                 THEN "Unnamed Project"
                                                 ELSE project_name]
           /\ pc' = "file_loop"
    /\ UNCHANGED <<services, Locals>>

\* analyze_codebase called by another caller than review_codebase
AnalyzeCodebase(files, project_name) ==
    /\ pc = "idle"
    /\ services
    /\ entry' = "analyze_codebase"
    /\ requests' = <<>>
    /\ response' = NoResponse
    /\ submission' = [NoSubmission EXCEPT !.files = files,
                                          !.project_name = project_name]
    /\ pc' = "file_loop"
    /\ UNCHANGED <<services, Locals>>

\* how the operation ends when e leaves analyze_codebase: except Exception
\* of review_codebase
Propagated(e) ==
    IF entry = "review_codebase" /\ IsA(e, "Exception")
    THEN Http("500", "Error analyzing codebase")
    ELSE Escaped(e)

\* analyze_single_file(files[idx]) up to its generate_content call
IssueFileRequest ==
    /\ pc = "file_loop"
    /\ idx <= Len(submission.files)
    /\ requests' = Issue("file", idx)
    /\ pc' = "file_wait"
    /\ UNCHANGED <<services, entry, submission, Locals, response>>

\* the call ends; the rest of analyze_single_file and of the loop body
CompleteFileRequest(outcome) ==
    /\ pc = "file_wait"
    /\ requests' = Complete
    /\ LET r == AnalyzeSingleFile(submission.files[idx], outcome) IN
       IF r.exc = "" THEN
           /\ file_analyses' = Append(file_analyses, r.val)
           /\ all_feedback' = all_feedback \o r.val.feedback
           /\ idx' = idx + 1
           /\ pc' = "file_loop"
           /\ UNCHANGED response
       ELSE
           /\ response' = Propagated(r.exc)
           /\ pc' = "done"
           /\ UNCHANGED <<file_analyses, all_feedback, idx>>
    /\ UNCHANGED <<services, entry, submission, cross_file_issues>>

\* variant: total_issues counted before the cross-file issues are added
ReviewPerFileTotal(cross, feedback) ==
    [project_name |-> submission.project_name,
     files |-> file_analyses,
     cross_file_issues |-> cross,
     overall_summary |-> GenerateOverallSummary(file_analyses, cross),
     overall_score |-> CalculateOverallScore(file_analyses),
     total_files |-> Len(submission.files),
     total_issues |-> Sum(NumFeedback(file_analyses))]

\* MultiFileReviewResponse(...) of analyze_codebase, given cross_file_issues
\* and all_feedback as they are after line 32
Review(cross, feedback) ==
    [project_name |-> submission.project_name,
     files |-> file_analyses,
     cross_file_issues |-> cross,
     overall_summary |-> GenerateOverallSummary(file_analyses, cross),
     overall_score |-> CalculateOverallScore(file_analyses),
     total_files |-> Len(submission.files),
     total_issues |-> Len(feedback)]

\* how the operation ends when analyze_codebase returns review
Answered(review) ==
    IF entry = "review_codebase" THEN Http200(review) ELSE Returned(review)

\* the loop is over and there are fewer than two files: no cross-file request
SkipCrossFile ==
    /\ pc = "file_loop"
    /\ idx > Len(submission.files)
    /\ Len(submission.files) < 2
    /\ cross_file_issues' = <<>>
    /\ all_feedback' = all_feedback \o <<>>
    /\ response' = Answered(Review(<<>>, all_feedback))
    /\ pc' = "done"
    /\ UNCHANGED <<services, entry, submission, idx, file_analyses, requests>>

\* variant: the early return tests "not files" instead of len(files) < 2
IssueCrossRequestOneFile ==
    /\ pc = "file_loop"
    /\ idx > Len(submission.files)
    /\ Len(submission.files) >= 1
    /\ requests' = Issue("cross", 0)
    /\ pc' = "cross_wait"
    /\ UNCHANGED <<services, entry, submission, Locals, response>>

\* analyze_cross_file_dependencies up to its generate_content call
IssueCrossRequest ==
    /\ pc = "file_loop"
    /\ idx > Len(submission.files)
    /\ Len(submission.files) >= 2
    /\ requests' = Issue("cross", 0)
    /\ pc' = "cross_wait"
    /\ UNCHANGED <<services, entry, submission, Locals, response>>

\* the call ends; the rest of analyze_cross_file_dependencies and of analyze_codebase
CompleteCrossRequest(outcome) ==
    /\ pc = "cross_wait"
    /\ requests' = Complete
    /\ LET r == CrossFileIssues(outcome) IN
       IF r.exc = "" THEN
           /\ cross_file_issues' = r.val
           /\ all_feedback' = all_feedback \o r.val
           /\ response' = Answered(Review(r.val, all_feedback \o r.val))
       ELSE
           /\ response' = Propagated(r.exc)
           /\ UNCHANGED <<cross_file_issues, all_feedback>>
    /\ pc' = "done"
    /\ UNCHANGED <<services, entry, submission, idx, file_analyses>>

\* the answer is delivered and the locals of the call are dropped
Finish ==
    /\ pc = "done"
    /\ pc' = "idle"
    /\ entry' = ""
    /\ submission' = NoSubmission
    /\ Fresh
    /\ requests' = <<>>
    /\ response' = NoResponse
    /\ UNCHANGED services

NonBlankFileInfos == {f \in FileInfos : ~IsBlank(f.content)}
TextArguments == {NoText} \cup {Answer(r) : r \in Replies}

Next ==
    \/ \E code \in Contents : ReviewCode(code)
    \/ \E o \in ModelOutcomes : ReviewCodeComplete(o)
    \/ \E code \in Contents, o \in ModelOutcomes : CallAnalyzeCode(code, o)
    \/ \E t \in TextArguments : CallParseAiResponse(t)
    \/ \E f \in FileInfos, o \in ModelOutcomes : CallAnalyzeSingleFile(f, o)
    \/ \E f \in Filenames : CallDetectLanguage(f)
    \/ \E f \in Filenames : UploadedFile(f)
    \/ \E files \in SeqsUpTo(NonBlankFileInfos, MaxFiles), o \in ModelOutcomes :
           CallAnalyzeCrossFile(files, o)
    \/ \E files \in SeqsUpTo(FileInfos, MaxFiles), p \in ProjectNames :
           ReviewCodebase(files, p)
    \/ \E files \in SeqsUpTo(NonBlankFileInfos, MaxFiles), p \in ProjectNames :
           AnalyzeCodebase(files, p)
    \/ IssueFileRequest
    \/ \E o \in ModelOutcomes : CompleteFileRequest(o)
    \/ SkipCrossFile
    \/ IssueCrossRequest
    \/ \E o \in ModelOutcomes : CompleteCrossRequest(o)
    \/ Finish

Spec == Init /\ [][Next]_vars

\* ======================= the claims =======================
Done(e) == pc = "done" /\ entry = e
\* the text is empty or made of whitespace
OnlyWhitespace(content) == \A k \in DOMAIN content : content[k] = Ws
ItemKeys == {"category", "severity", "line", "message", "suggestion"}
Body == response.body[1]
CodebaseCall == entry \in {"review_codebase", "analyze_codebase"}
\* the call went through analyze_codebase and it returned
CodebaseAnswered == pc = "done" /\ CodebaseCall /\ response.status \in {"200", "returned"}

\* C1: AIService.analyze_code never raises; for every reply text, a reply
\* without text and a generate_content call that raises, it returns a dict with
\* a list under "feedback", a "summary" and an "overall_score", and every
\* element of the list has the keys category, severity, line, message and
\* suggestion.
C1_AnalyzeCodeWellFormed ==
    Done("analyze_code") =>
        /\ response.status = "returned"
        /\ IsObj(Body)
        /\ {"feedback", "summary", "overall_score"} \subseteq DOMAIN Body[2]
        /\ IsList(Body[2]["feedback"])
        /\ \A k \in DOMAIN Body[2]["feedback"][2] :
               /\ IsObj(Body[2]["feedback"][2][k])
               /\ ItemKeys \subseteq DOMAIN Body[2]["feedback"][2][k][2]

\* a reply whose only item gives just a line was returned with the other four
\* keys filled in
C1_Witness ==
    /\ Done("analyze_code")
    /\ submission.outcome.kind = "text"
    /\ response.status = "returned"
    /\ Len(Body[2]["feedback"][2]) = 1
    /\ Body[2]["feedback"][2][1][2]["line"] = IntV(2)
    /\ Body[2]["feedback"][2][1][2]["message"] = StrV("Issue identified")

\* C2 (as claimed): with the AI service available and code that is not blank,
\* POST /review-code answers 200 with a CodeReviewResponse for every outcome of
\* the model call, never 500.
C2_ReviewCodeNever500 ==
    (Done("review_code") /\ services /\ ~OnlyWhitespace(submission.code)) =>
        /\ response.status = "200"
        /\ Body.overall_score \in Int
        /\ \A k \in DOMAIN Body.feedback : Body.feedback[k].line \in Int

\* C3: parse_ai_response, for a str reply (surrounding whitespace stripped, as
\* the method does first): without a json fence, when the text does not start
\* with "{" or "[" and lacks a "{" or a "}", and whenever the selected
\* substring is not valid JSON, it returns the default record and does not
\* raise; otherwise it returns the decoded value of the selected substring.
NoCandidate(t) ==
    /\ FenceJson \notin Range(t)
    /\ t = <<>> \/ t[1] \notin {"{", "["}
    /\ "{" \notin Range(t) \/ "}" \notin Range(t)

IsDefaultRecord(x) ==
    /\ IsObj(x)
    /\ DOMAIN x[2] = {"feedback", "summary", "score"}
    /\ x[2]["summary"] = StrV("Analysis completed with parsing issues")
    /\ x[2]["score"] = IntV(5)
    /\ IsList(x[2]["feedback"])
    /\ Len(x[2]["feedback"][2]) = 1
    /\ IsObj(x[2]["feedback"][2][1])
    /\ DOMAIN x[2]["feedback"][2][1][2] = ItemKeys
    /\ x[2]["feedback"][2][1][2]["category"] = StrV("style")
    /\ x[2]["feedback"][2][1][2]["severity"] = StrV("medium")
    /\ x[2]["feedback"][2][1][2]["line"] = IntV(1)

SelectedText(t) == SelectJsonContentMulti(t).content

C3_WitnessDefault ==
    /\ Done("parse_ai_response")
    /\ submission.outcome.kind = "text"
    /\ submission.outcome.text = <<Prose, "}", Prose, "{">>
    /\ ~NoCandidate(Strip(submission.outcome.text))
    /\ IsDefaultRecord(Body)

\* C4: analyze_single_file never raises and returns a FileFeedback of the
\* file it was given, for every reply (also one that decodes to a non-object
\* or has fields of the wrong type), for a reply without text and for a call
\* that raises: filename is file_info.filename, score is an integer and
\* every feedback item carries filename = file_info.filename, whatever
\* filename the model gave.
IsRecordOf(fa, filename) ==
    /\ fa.filename = filename
    /\ fa.score \in Int
    /\ \A k \in DOMAIN fa.feedback : fa.feedback[k].filename = filename

C4_SingleFileRecord ==
    /\ Done("analyze_single_file") =>
           /\ response.status = "returned"
           /\ IsRecordOf(Body, submission.files[1].filename)
    /\ CodebaseCall =>
           \A k \in DOMAIN file_analyses :
               IsRecordOf(file_analyses[k], submission.files[k].filename)

\* the model named another file in its item; the item came back under the
\* name of the file analyzed
C4_Witness ==
    /\ Done("analyze_single_file")
    /\ submission.outcome.kind = "text"
    /\ "zzz.py" \in Range(submission.outcome.text)
    /\ response.status = "returned"
    /\ Len(Body.feedback) = 1
    /\ Body.feedback[1].severity = "high"
    /\ Body.feedback[1].filename = submission.files[1].filename
    /\ Body.score = 1

\* C5: in every response of analyze_codebase total_issues is the number of
\* feedback items of the per-file records plus the number of cross-file
\* issues, and total_files is the number of submitted files.
C5_CountsAgree ==
    CodebaseAnswered =>
        /\ Body.total_issues =
               Sum([k \in DOMAIN Body.files |-> Len(Body.files[k].feedback)])
                   + Len(Body.cross_file_issues)
        /\ Body.total_files = Len(submission.files)

C5_Witness ==
    /\ CodebaseAnswered
    /\ Len(submission.files) = 2
    /\ Len(Body.files[1].feedback) = 2
    /\ Len(Body.files[2].feedback) = 1
    /\ Len(Body.cross_file_issues) = 2
    /\ Body.total_issues = 5

\* C6: analyze_codebase returns one per-file record per submitted file, in
\* submission order, also when two files share a filename and when the model
\* call of a file fails.
C6_OneRecordPerFile ==
    CodebaseAnswered =>
        /\ Len(Body.files) = Len(submission.files)
        /\ \A k \in DOMAIN submission.files :
               Body.files[k].filename = submission.files[k].filename

\* two files of different names, the call for the first failed
C6_Witness ==
    /\ CodebaseAnswered
    /\ Len(submission.files) = 2
    /\ submission.files[1].filename = "b.js"
    /\ submission.files[2].filename = "a.py"
    /\ Body.files[1].summary = <<"Unable to analyze ", "b.js">>
    /\ Body.files[2].score = 8

\* two files of the same name
C6_WitnessSameName ==
    /\ CodebaseAnswered
    /\ Len(submission.files) = 2
    /\ submission.files[1].filename = submission.files[2].filename
    /\ Body.files[1].score # Body.files[2].score

\* C7: overall_score is the average of the per-file scores rounded to the
\* nearest integer, a tie going to the even neighbour, and 5 without per-file
\* records; it lies between the smallest and the largest per-file score, and
\* the cross-file issues have no part in it.
Abs(x) == IF x < 0 THEN -x ELSE x
ScoreSum == Sum([k \in DOMAIN Body.files |-> Body.files[k].score])
ScoreCount == Len(Body.files)

C7_OverallScore ==
    CodebaseAnswered =>
        IF ScoreCount = 0 THEN Body.overall_score = 5
        ELSE /\ Abs(2 * ScoreCount * Body.overall_score - 2 * ScoreSum) <= ScoreCount
             /\ Abs(2 * ScoreCount * Body.overall_score - 2 * ScoreSum) = ScoreCount
                    => Body.overall_score % 2 = 0
             /\ \E k \in DOMAIN Body.files : Body.files[k].score <= Body.overall_score
             /\ \E k \in DOMAIN Body.files : Body.files[k].score >= Body.overall_score

\* scores 8 and 1: the average 4.5 is rounded down to the even 4, with
\* cross-file issues present
C7_Witness ==
    /\ CodebaseAnswered
    /\ ScoreCount = 2
    /\ ScoreSum = 9
    /\ Body.overall_score = 4
    /\ Body.cross_file_issues # <<>>

C7_WitnessEmpty ==
    /\ CodebaseAnswered
    /\ ScoreCount = 0
    /\ Body.overall_score = 5

\* C8: overall_summary is the "Excellent codebase" text exactly when
\* total_issues is 0; otherwise the "Codebase needs attention" text exactly
\* when some per-file or cross-file item has severity "high", stating
\* total_issues and the number of those items; otherwise the "Good codebase"
\* text stating total_issues.
HighIn(items) == Cardinality({k \in DOMAIN items : items[k].severity = "high"})
HighItems ==
    Sum([k \in DOMAIN Body.files |-> HighIn(Body.files[k].feedback)])
        + HighIn(Body.cross_file_issues)

C8_SummaryConsistent ==
    CodebaseAnswered =>
        LET summary == Body.overall_summary IN
        /\ IF Body.total_issues = 0 THEN
               summary.text = "Excellent codebase! No significant issues found across all files."
           ELSE IF HighItems > 0 THEN
               /\ summary.text = "Codebase needs attention"
               /\ summary.total = Body.total_issues
               /\ summary.high = HighItems
           ELSE
               /\ summary.text = "Good codebase with room for improvement"
               /\ summary.total = Body.total_issues

\* the only high-severity item is a cross-file one
C8_Witness ==
    /\ CodebaseAnswered
    /\ Body.total_issues = 3
    /\ \A k \in DOMAIN Body.files :
           \A j \in DOMAIN Body.files[k].feedback :
               Body.files[k].feedback[j].severity # "high"
    /\ Body.overall_summary.text = "Codebase needs attention"
    /\ Body.overall_summary.high = 1

\* C9: analyze_codebase on n files issues n per-file requests, one per file in
\* submission order, each completed before the next is issued; the cross-file
\* request comes after all of them, once when n >= 2 and never when n < 2; the
\* call ends after n requests (n < 2) or n + 1 requests (n >= 2), and until
\* then it can always take its next step.
NumFiles == Len(submission.files)

C9_RequestOrder ==
    CodebaseCall =>
        /\ Len(requests) <= NumFiles + 1
        /\ \A k \in DOMAIN requests :
               /\ k <= NumFiles => requests[k] = [kind |-> "file", index |-> k,
                                                  completed |-> requests[k].completed]
               /\ k = NumFiles + 1 => requests[k].kind = "cross" /\ NumFiles >= 2
               /\ k < Len(requests) => requests[k].completed
        /\ pc = "file_wait" => Len(requests) = idx /\ ~requests[idx].completed
        /\ pc = "file_loop" => Len(requests) = idx - 1
        /\ pc = "cross_wait" => Len(requests) = NumFiles + 1
        /\ CodebaseAnswered =>
               /\ Len(requests) = IF NumFiles >= 2 THEN NumFiles + 1 ELSE NumFiles
               /\ \A k \in DOMAIN requests : requests[k].completed
        /\ pc = "file_loop" => ENABLED (IssueFileRequest \/ SkipCrossFile \/ IssueCrossRequest)
        /\ pc = "file_wait" => ENABLED CompleteFileRequest(NoText)
        /\ pc = "cross_wait" => ENABLED CompleteCrossRequest(NoText)

\* three requests for two files, the first of which failed
C9_Witness ==
    /\ CodebaseAnswered
    /\ NumFiles = 2
    /\ Len(requests) = 3
    /\ requests[3].kind = "cross"
    /\ Body.files[1].summary = <<"Unable to analyze ", submission.files[1].filename>>

C9_WitnessOneFile ==
    /\ CodebaseAnswered
    /\ NumFiles = 1
    /\ Len(requests) = 1

\* C10 (as claimed): POST /review-code with blank code answers 400 "Code
\* cannot be empty"; POST /review-codebase with no file or with a blank file
\* answers 400; no model request is made.
BlankFile == \E k \in DOMAIN submission.files : OnlyWhitespace(submission.files[k].content)

C10_RejectedWith400 ==
    /\ (Done("review_code") /\ OnlyWhitespace(submission.code)) =>
           /\ response = Http("400", "Code cannot be empty")
           /\ requests = <<>>
    /\ (Done("review_codebase") /\ (submission.files = <<>> \/ BlankFile)) =>
           /\ response.status = "400"
           /\ requests = <<>>

\* C10 (amended): a submission with blank code, no file or a blank file causes
\* no model request and no file of it is analyzed, at any point of the call;
\* when the services are available it is answered 400 ("Code cannot be empty"
\* for /review-code), and 500 when they are not.
C10_RejectedNoRequest ==
    /\ (entry = "review_code" /\ OnlyWhitespace(submission.code)) =>
           /\ pc = "done"
           /\ requests = <<>>
           /\ response = IF services
                         THEN Http("400", "Code cannot be empty")
                         ELSE Http("500", "AI service not available. Please check API key configuration.")
    /\ (entry = "review_codebase" /\ (submission.files = <<>> \/ BlankFile)) =>
           /\ pc = "done"
           /\ requests = <<>>
           /\ file_analyses = <<>>
           /\ response.status = IF services THEN "400" ELSE "500"

\* a blank second file after a first file with code: rejected, nothing analyzed
C10_Witness ==
    /\ Done("review_codebase")
    /\ services
    /\ Len(submission.files) = 2
    /\ ~OnlyWhitespace(submission.files[1].content)
    /\ submission.files[2].content = <<Ws>>
    /\ response.status = "400"
    /\ requests = <<>>

\* C11: the pipeline keeps no state between requests. Between two requests
\* every variable of a call is back at its initial value, so a request starts
\* from the same state whatever was served before; the response of
\* analyze_code is the function AnalyzeCode of the reply of this request, and
\* the response of analyze_codebase holds the submitted project name, the
\* records made during this request (one per submitted file) and the rollup of
\* exactly those; no step changes the service objects.
BetweenRequests ==
    /\ entry = ""
    /\ submission = NoSubmission
    /\ idx = 1
    /\ file_analyses = <<>>
    /\ all_feedback = <<>>
    /\ cross_file_issues = <<>>
    /\ requests = <<>>
    /\ response = NoResponse

OfThisRequest ==
    /\ Done("analyze_code") => response = Ends(AnalyzeCode(submission.outcome))
    /\ CodebaseAnswered =>
           /\ Body.project_name = submission.project_name
           /\ Body.files = file_analyses
           /\ Len(Body.files) = Len(requests) - (IF Len(submission.files) >= 2 THEN 1 ELSE 0)
           /\ Body.cross_file_issues = cross_file_issues
           /\ Body.overall_summary = GenerateOverallSummary(Body.files, Body.cross_file_issues)
           /\ Body.overall_score = CalculateOverallScore(Body.files)
           /\ Len(all_feedback) = Body.total_issues

C11_NoStateBetweenRequests ==
    /\ [](pc = "idle" => BetweenRequests)
    /\ []OfThisRequest
    /\ [][services' = services]_vars

\* a codebase of two files was answered under its own project name, with a
\* record per request of this call
C11_Witness ==
    /\ CodebaseAnswered
    /\ entry = "review_codebase"
    /\ Len(submission.files) = 2
    /\ Body.project_name = "Unnamed Project"
    /\ Len(requests) = 3
    /\ Len(Body.files) = 2
    /\ Body.total_issues = 5

\* C12: detect_language_from_filename returns for every filename; the result
\* depends only on the text after the last ".", compared without regard to
\* case: py -> python; ts, tsx -> typescript; js, jsx -> javascript;
\* java -> java; cpp, cc, cxx, c, h, hpp -> cpp; cs -> csharp; any other
\* extension and a filename without "." -> python. An upload without a
\* filename is named unknown.txt and taken as python.
CasePairs ==
    {<<"p", "P">>, <<"y", "Y">>, <<"t", "T">>, <<"s", "S">>, <<"x", "X">>,
     <<"j", "J">>, <<"a", "A">>, <<"v", "V">>, <<"c", "C">>, <<"h", "H">>}
SameIgnoringCase(a, b) ==
    /\ Len(a) = Len(b)
    /\ \A k \in DOMAIN a : a[k] = b[k] \/ <<a[k], b[k]>> \in CasePairs
                                       \/ <<b[k], a[k]>> \in CasePairs
Dots(s) == {k \in DOMAIN s : s[k] = "."}
HasExtension(s, words) ==
    /\ Dots(s) # {}
    /\ \E w \in words :
           SameIgnoringCase(w, SubSeq(s, (CHOOSE k \in Dots(s) : \A j \in Dots(s) : j <= k) + 1, Len(s)))
LanguageOf(s) ==
    IF HasExtension(s, {<<"t", "s">>, <<"t", "s", "x">>}) THEN "typescript"
    ELSE IF HasExtension(s, {<<"j", "s">>, <<"j", "s", "x">>}) THEN "javascript"
    ELSE IF HasExtension(s, {<<"j", "a", "v", "a">>}) THEN "java"
    ELSE IF HasExtension(s, {<<"c", "p", "p">>, <<"c", "c">>, <<"c", "x", "x">>,
                             <<"c">>, <<"h">>, <<"h", "p", "p">>}) THEN "cpp"
    ELSE IF HasExtension(s, {<<"c", "s">>}) THEN "csharp"
    ELSE "python"

C12_DetectLanguage ==
    /\ Done("detect_language") =>
           response = Returned(LanguageOf(submission.filename))
    /\ Done("upload_file") =>
           /\ response.status = "returned"
           /\ Body.language = LanguageOf(Body.filename)
           /\ submission.filename # <<>> => Body.filename = submission.filename
           /\ submission.filename = <<>> =>
                  Body.filename = UnknownTxt /\ Body.language = "python"

\* a name with several dots and an extension in upper case
C12_Witness ==
    /\ Done("detect_language")
    /\ submission.filename = <<"a", ".", "p", "y", ".", "T", "S", "X">>
    /\ response = Returned("typescript")

C12_WitnessUnknown ==
    /\ Done("upload_file")
    /\ submission.filename = <<>>
    /\ Body.language = "python"

\* C13: when the reply decodes to an object with a "feedback" list of objects,
\* analyze_code returns every key the model gave, in the object and in each
\* item, with its value unchanged, and fills in only the absent keys (summary
\* "Code analysis completed", overall_score 5, line 1, category "style",
\* severity "medium", message "Issue identified", suggestion "Consider
\* reviewing this code"); a "feedback" that is not a list becomes the empty
\* list; an object without "feedback" yields the error record with
\* overall_score 5 and one feedback item.
ReplyValue == JsonLoads(SelectJsonContent(Strip(submission.outcome.text)).content)
ReplyDecodes ==
    /\ submission.outcome.kind = "text"
    /\ SelectJsonContent(Strip(submission.outcome.text)).exc = ""
    /\ ReplyValue.ok
    /\ IsObj(ReplyValue.val)

ObjectDefaults ==
    [summary |-> StrV("Code analysis completed"), overall_score |-> IntV(5)]
ItemFill ==
    [line |-> IntV(1), category |-> StrV("style"), severity |-> StrV("medium"),
     message |-> StrV("Issue identified"),
     suggestion |-> StrV("Consider reviewing this code")]

\* got has the keys of given with their values, and the keys of fill that
\* given lacks with the values of fill
FilledIn(got, given, fill) ==
    /\ DOMAIN got = DOMAIN given \cup DOMAIN fill
    /\ \A key \in DOMAIN given : got[key] = given[key]
    /\ \A key \in DOMAIN fill \ DOMAIN given : got[key] = fill[key]

ModelItems == ReplyValue.val[2]["feedback"][2]

C13_ModelKeysKept ==
    (Done("analyze_code") /\ ReplyDecodes) =>
        /\ response.status = "returned"
        /\ IF ~HasKey(ReplyValue.val, "feedback") THEN
               /\ Body[2]["overall_score"] = IntV(5)
               /\ Body[2]["summary"] = StrV("Unable to complete full analysis")
               /\ Len(Body[2]["feedback"][2]) = 1
           ELSE IF ~IsList(ReplyValue.val[2]["feedback"]) THEN
               /\ Body[2]["feedback"] = ListV(<<>>)
               /\ FilledIn([key \in DOMAIN Body[2] \ {"feedback"} |-> Body[2][key]],
                           [key \in DOMAIN ReplyValue.val[2] \ {"feedback"} |->
                               ReplyValue.val[2][key]],
                           ObjectDefaults)
           ELSE IF \A k \in DOMAIN ModelItems : IsObj(ModelItems[k]) THEN
               /\ FilledIn([key \in DOMAIN Body[2] \ {"feedback"} |-> Body[2][key]],
                           [key \in DOMAIN ReplyValue.val[2] \ {"feedback"} |->
                               ReplyValue.val[2][key]],
                           ObjectDefaults)
               /\ Len(Body[2]["feedback"][2]) = Len(ModelItems)
               /\ \A k \in DOMAIN ModelItems :
                      FilledIn(Body[2]["feedback"][2][k][2], ModelItems[k][2], ItemFill)
           ELSE TRUE

\* the model gave a summary, a score and two full items, one naming a file:
\* all of it is returned, and overall_score is filled in
C13_Witness ==
    /\ Done("analyze_code")
    /\ ReplyDecodes
    /\ HasKey(ReplyValue.val, "feedback")
    /\ IsList(ReplyValue.val[2]["feedback"])
    /\ Len(ModelItems) = 2
    /\ "overall_score" \notin DOMAIN ReplyValue.val[2]
    /\ Body[2]["overall_score"] = IntV(5)
    /\ Body[2]["score"] = IntV(2)
    /\ Body[2]["feedback"][2][2][2]["severity"] = StrV("high")

\* a null summary is a key the model gave: it stays null
C13_WitnessNull ==
    /\ Done("analyze_code")
    /\ ReplyDecodes
    /\ Body[2]["summary"] = NullV

C13_WitnessNoFeedback ==
    /\ Done("analyze_code")
    /\ ReplyDecodes
    /\ ~HasKey(ReplyValue.val, "feedback")
    /\ Len(Body[2]["feedback"][2]) = 1

\* C14: a failure while analyzing one file stays with that file. When the
\* model request for a file raises, analyze_single_file returns the record
\* with score 5, summary "Unable to analyze <filename>" and one feedback item
\* (category "logic", severity "low", line 1, the file's name); in
\* analyze_codebase that record is appended, the records made before are
\* left as they are, the loop goes on to the next file, and the call ends
\* with all its requests made, the cross-file request included.
IsFailureRecord(fa, filename) ==
    /\ fa.filename = filename
    /\ fa.score = 5
    /\ fa.summary = <<"Unable to analyze ", filename>>
    /\ Len(fa.feedback) = 1
    /\ fa.feedback[1].category = "logic"
    /\ fa.feedback[1].severity = "low"
    /\ fa.feedback[1].line = 1
    /\ fa.feedback[1].filename = filename

SomeFileFailed ==
    \E k \in DOMAIN file_analyses :
        file_analyses[k].summary = <<"Unable to analyze ", submission.files[k].filename>>

C14_FailureIsolated ==
    /\ (Done("analyze_single_file") /\ submission.outcome.kind = "raise") =>
           /\ response.status = "returned"
           /\ IsFailureRecord(Body, submission.files[1].filename)
    /\ (CodebaseCall /\ pc = "file_wait") =>
           \A e \in ModelErrors :
               ENABLED (/\ CompleteFileRequest(RaisedWith(e))
                        /\ pc' = "file_loop"
                        /\ idx' = idx + 1
                        /\ Len(file_analyses') = Len(file_analyses) + 1
                        /\ SubSeq(file_analyses', 1, Len(file_analyses)) = file_analyses
                        /\ IsFailureRecord(file_analyses'[idx], submission.files[idx].filename))
    /\ (CodebaseCall /\ SomeFileFailed) =>
           /\ \A k \in DOMAIN file_analyses :
                  file_analyses[k].summary = <<"Unable to analyze ", submission.files[k].filename>>
                      => IsFailureRecord(file_analyses[k], submission.files[k].filename)
           /\ pc = "file_loop" =>
                  ENABLED (IssueFileRequest \/ SkipCrossFile \/ IssueCrossRequest)
           /\ pc = "done" =>
                  /\ response.status \in {"200", "returned"}
                  /\ Len(Body.files) = Len(submission.files)
                  /\ Len(requests) = Len(submission.files)
                         + (IF Len(submission.files) >= 2 THEN 1 ELSE 0)

\* the request for the second of two files failed: the first file's record
\* is the model's, and the cross-file request was made and answered
C14_Witness ==
    /\ CodebaseAnswered
    /\ Len(submission.files) = 2
    /\ Body.files[1].score = 1
    /\ Len(Body.files[1].feedback) = 1
    /\ IsFailureRecord(Body.files[2], submission.files[2].filename)
    /\ Len(requests) = 3
    /\ requests[3].completed
    /\ Len(Body.cross_file_issues) = 2

\* C15 (as claimed): every item of cross_file_issues is an issue the model
\* reported in its cross-file reply, or the cross-file error item whose
\* filename is "multiple_files"; when the reply cannot be parsed as JSON there
\* is no other item than that error item, and with fewer than two files
\* cross_file_issues is empty.
CrossReplyParses ==
    /\ submission.outcome.kind = "text"
    /\ ~NoCandidate(Strip(submission.outcome.text))
    /\ JsonLoads(SelectedText(Strip(submission.outcome.text))).ok

\* the items of the decoded reply: a list, or the "feedback" list of an object
ReportedIn(d) ==
    IF IsList(d) THEN d[2]
    ELSE IF IsObj(d) /\ HasKey(d, "feedback") /\ IsList(d[2]["feedback"])
    THEN d[2]["feedback"][2]
    ELSE <<>>

IsReported(item) ==
    /\ CrossReplyParses
    /\ \E k \in DOMAIN ReportedIn(JsonLoads(SelectedText(Strip(submission.outcome.text))).val) :
           LET given == ReportedIn(JsonLoads(SelectedText(Strip(submission.outcome.text))).val)[k]
           IN  IsObj(given) /\ FeedbackItem(given[2]) = Ok(item)

IsCrossFileErrorItem(item) ==
    /\ item.filename = "multiple_files"
    /\ item.category = "logic"
    /\ item.severity = "low"
    /\ item.line = 1

C15_OnlyReportedIssues ==
    /\ Done("analyze_cross_file_dependencies") =>
           /\ response.status = "returned"
           /\ Len(submission.files) < 2 => Body = <<>>
           /\ \A k \in DOMAIN Body : IsReported(Body[k]) \/ IsCrossFileErrorItem(Body[k])
    /\ (CodebaseAnswered /\ Len(submission.files) < 2) => Body.cross_file_issues = <<>>

\* C16 (as claimed): the overall_score of every analyze_codebase response and
\* the score of every per-file record lie in 1..10, for every model reply.
C16_ScoresInRange ==
    /\ Done("analyze_single_file") =>
           (response.status = "returned" /\ Body.score \in 1..10)
    /\ CodebaseAnswered =>
           /\ Body.overall_score \in 1..10
           /\ \A k \in DOMAIN Body.files : Body.files[k].score \in 1..10

====
